---- MODULE Spec2Model ----
(***************************************************************************)
(* State-machine model of packet-tracer-generator's core (src/src/lib.rs): *)
(* the device registry (a SlotMap), the link table (a HashMap keyed by an  *)
(* ordered pair of device keys), the oriented view of a link and the       *)
(* per-device command compiler.                                            *)
(*                                                                         *)
(* Device keys: slotmap's DefaultKey orders by (slot index, version).      *)
(* Devices are never removed, so the n-th inserted device gets slot n and  *)
(* keys are ordered by creation; a key is modelled by its position 1..n in *)
(* `devices`.  Callers pass keys obtained from add_device of this App.     *)
(*                                                                         *)
(* Addresses: an IpNet is [fam, addr, len]; addr is an AddrBits-wide       *)
(* unsigned integer (AddrBits scales down the 32 bits of IPv4, the 128 of  *)
(* IPv6).  Prefix lengths AddrBits-2, AddrBits-1 and AddrBits play the     *)
(* parts of /30, /31 and /32.                                              *)
(***************************************************************************)
EXTENDS Integers, Sequences, FiniteSets, TLC

VARIABLES
    devices,      \* App::devices: sequence of Device records, key = index
    links,        \* App::links: function from <<k1, k2>> to Link records
    rip_enabled,  \* App::rip_enabled: Vec of device keys
    last          \* the last call made on the App, its arguments and how it ended

vars == <<devices, links, rip_enabled, last>>

----------------------------------------------------------------------------
(* Bounds of the model *)

MaxIface == 2
AddrBits == 3

(* next_iface is a u8 *)
U8Modulus == 256

----------------------------------------------------------------------------
(* Values *)

None == [some |-> FALSE]
Some(v) == [some |-> TRUE, val |-> v]

Pow2(n) == 2 ^ n

Keys == 1 .. Len(devices)

(* An IpNet value: address family, address, prefix length *)
IpNet(fam, addr, len) == [fam |-> fam, addr |-> addr, len |-> len]

(* An IpAddr value: address family, address *)
IpAddr(fam, addr) == [fam |-> fam, addr |-> addr]

(* Display of an IpAddr: the textual form of its family *)
to_string(ip) ==
    (IF ip.fam = "v4" THEN "v4." ELSE "v6:") \o ToString(ip.addr)

----------------------------------------------------------------------------
(* ipnet crate: parsing and block arithmetic *)

(* IpNet::from_str: the text "<addr>/<len>" is given as <<fam, addr, len>>;   *)
(* parsing fails when the prefix length exceeds the address width or the      *)
(* address does not fit it, and otherwise keeps the address as written (the   *)
(* host bits are not cleared).                                                *)
from_str(s) ==
    IF s[2] \in 0 .. (Pow2(AddrBits) - 1) /\ s[3] \in 0 .. AddrBits
    THEN Some(IpNet(s[1], s[2], s[3]))
    ELSE None

BlockSize(net) == Pow2(AddrBits - net.len)

(* IpNet::network: the address with the host bits cleared *)
network(net) == IpAddr(net.fam, net.addr - (net.addr % BlockSize(net)))

(* IpNet::broadcast: the address with the host bits set *)
broadcast(net) == IpAddr(net.fam, network(net).addr + BlockSize(net) - 1)

(* IpNet::netmask and IpNet::hostmask *)
netmask(net) == IpAddr(net.fam, Pow2(AddrBits) - BlockSize(net))
hostmask(net) == IpAddr(net.fam, BlockSize(net) - 1)

(* IpNet::contains for an address *)
contains(net, ip) ==
    /\ ip.fam = net.fam
    /\ network(net).addr <= ip.addr
    /\ ip.addr <= broadcast(net).addr

(* Mutant: no address of the block is left out *)
hosts_all(net) ==
    [i \in 1 .. BlockSize(net) |-> IpAddr(net.fam, network(net).addr + i - 1)]

(* IpNet::hosts: the ascending range of host addresses.  Ipv4Net leaves out   *)
(* the network and broadcast addresses unless the prefix is one of the two    *)
(* longest (/31, /32); Ipv6Net yields every address of the block.             *)
hosts(net) ==
    LET lo == IF net.fam = "v4" /\ net.len < AddrBits - 1
              THEN network(net).addr + 1 ELSE network(net).addr
        hi == IF net.fam = "v4" /\ net.len < AddrBits - 1
              THEN broadcast(net).addr - 1 ELSE broadcast(net).addr
    IN  [i \in 1 .. (hi - lo + 1) |-> IpAddr(net.fam, lo + i - 1)]

(* to_ipnet: an address paired with a prefix length *)
to_ipnet(ip, cidr) == IpNet(ip.fam, ip.addr, cidr)

----------------------------------------------------------------------------
(* Records *)

(* Device, as DeviceBuilder::finish inserts it *)
Device(name, ospf_to_rip) ==
    [name |-> name, x |-> 0, y |-> 0,
     redistributions |-> [ospf_to_rip |-> ospf_to_rip],
     next_iface |-> 0]

(* Link::default(), the value entry().or_default() inserts *)
DefaultLink ==
    [r1 |-> IpNet("v4", 0, 0), r2 |-> IpNet("v4", 0, 0),
     r1_iface |-> 0, r2_iface |-> 0, ospf_area |-> None]

(* u8 += 1 in a build without overflow checks (release): the sum wraps *)
IncU8(n) == (n + 1) % U8Modulus

(* u8 += 1 overflows: a build with overflow checks (debug) panics here *)
OverflowsU8(n) == n + 1 >= U8Modulus

----------------------------------------------------------------------------
(* Mutant: the view is always taken from the side of the lower key *)
get_directed_link_unswapped(close_key, far_key) ==
    IF close_key = far_key
    THEN [res |-> "panic", at |-> "assert_ne"]
    ELSE LET key == IF close_key < far_key THEN <<close_key, far_key>>
                    ELSE <<far_key, close_key>>
         IN  [res |-> "ok", at |-> "",
              val |-> IF key \in DOMAIN links
                      THEN Some([close_key |-> close_key,
                                 far_key |-> far_key,
                                 close_ip |-> links[key].r1,
                                 far_ip |-> links[key].r2,
                                 close_iface |-> links[key].r1_iface,
                                 ospf_area |-> links[key].ospf_area])
                      ELSE None]

----------------------------------------------------------------------------
(* App::get_directed_link *)

get_directed_link(close_key, far_key) ==
    IF close_key = far_key
    THEN [res |-> "panic", at |-> "assert_ne"]
    ELSE LET r1_close == close_key < far_key
             key == IF r1_close THEN <<close_key, far_key>>
                    ELSE <<far_key, close_key>>
         IN  [res |-> "ok", at |-> "",
              val |-> IF key \in DOMAIN links
                      THEN Some([close_key |-> close_key,
                                 far_key |-> far_key,
                                 close_ip |-> IF r1_close THEN links[key].r1
                                              ELSE links[key].r2,
                                 far_ip |-> IF r1_close THEN links[key].r2
                                            ELSE links[key].r1,
                                 close_iface |-> IF r1_close
                                                 THEN links[key].r1_iface
                                                 ELSE links[key].r2_iface,
                                 ospf_area |-> links[key].ospf_area])
                      ELSE None]

----------------------------------------------------------------------------
(* App::link *)

(* Mutant: the keys are used as given *)
link_order_as_given(r1, r2) == <<r1, r2>>

(* Mutant: the ordering compares the wrong way round *)
link_order_reversed(r1, r2) == IF r1 > r2 THEN <<r1, r2>> ELSE <<r2, r1>>

(* "Order `r1` and `r2`" *)
link_order(r1, r2) == IF r1 < r2 THEN <<r1, r2>> ELSE <<r2, r1>>

(* Mutant: the iterator is created anew for the second address *)
link_addrs_same_host(ip) ==
    <<to_ipnet(hosts(ip)[1], ip.len), to_ipnet(hosts(ip)[1], ip.len)>>

(* The two addresses of a link: the first two hosts of the block, each with   *)
(* the block's prefix length                                                  *)
link_addrs(ip) ==
    <<to_ipnet(hosts(ip)[1], ip.len), to_ipnet(hosts(ip)[2], ip.len)>>

(* Mutant: an existing record keeps its area when the call gives none *)
link_record_merge(k1, k2, ip, ospf_area) ==
    LET old == IF <<k1, k2>> \in DOMAIN links THEN links[<<k1, k2>>]
               ELSE DefaultLink
    IN  [old EXCEPT !.r1 = to_ipnet(hosts(ip)[1], ip.len),
                    !.r2 = to_ipnet(hosts(ip)[2], ip.len),
                    !.ospf_area = IF ospf_area.some THEN ospf_area ELSE old.ospf_area,
                    !.r1_iface = devices[k1].next_iface,
                    !.r2_iface = devices[k2].next_iface]

(* Mutant: the counters are raised before the record takes them *)
link_record_after_incr(k1, k2, ip, ospf_area) ==
    LET old == IF <<k1, k2>> \in DOMAIN links THEN links[<<k1, k2>>]
               ELSE DefaultLink
    IN  [old EXCEPT !.r1 = to_ipnet(hosts(ip)[1], ip.len),
                    !.r2 = to_ipnet(hosts(ip)[2], ip.len),
                    !.ospf_area = ospf_area,
                    !.r1_iface = (devices[k1].next_iface + 1) % U8Modulus,
                    !.r2_iface = (devices[k2].next_iface + 1) % U8Modulus]

(* The record written through entry((r1, r2)).or_default(), r1 < r2 *)
link_record(k1, k2, ip, ospf_area) ==
    LET old == IF <<k1, k2>> \in DOMAIN links THEN links[<<k1, k2>>]
               ELSE DefaultLink
    IN  [old EXCEPT !.r1 = link_addrs(ip)[1],
                    !.r2 = link_addrs(ip)[2],
                    !.ospf_area = ospf_area,
                    !.r1_iface = devices[k1].next_iface,
                    !.r2_iface = devices[k2].next_iface]

(* The counters after "next_iface += 1" on both devices *)
link_counters(k1, k2) ==
    [devices EXCEPT ![k1].next_iface = IncU8(devices[k1].next_iface),
                    ![k2].next_iface = IncU8(devices[k2].next_iface)]

(* The panics of link, in the order of the code: the unwrap of the parse,     *)
(* assert_ne!(r1, r2), assert!(ip.hosts().count() >= 2).  All of them come    *)
(* before the first write.                                                    *)
link_panic(r1, r2, s) ==
    IF ~from_str(s).some THEN "from_str"
    ELSE IF r1 = r2 THEN "assert_ne"
    ELSE IF ~(Len(hosts(from_str(s).val)) >= 2) THEN "assert_hosts"
    ELSE ""

(* Mutant: the assertion about the hosts comes after entry().or_default() *)
link_assert_late(r1, r2, s, ospf_area) ==
    IF link_panic(r1, r2, s) = "assert_hosts"
    THEN [res |-> "panic", at |-> "assert_hosts", devices |-> devices,
          links |-> links @@ (link_order(r1, r2) :> DefaultLink)]
    ELSE IF link_panic(r1, r2, s) # ""
    THEN [res |-> "panic", at |-> link_panic(r1, r2, s),
          devices |-> devices, links |-> links]
    ELSE [res |-> "ok", at |-> "",
          devices |-> link_counters(link_order(r1, r2)[1], link_order(r1, r2)[2]),
          links |-> (link_order(r1, r2) :>
                        link_record(link_order(r1, r2)[1], link_order(r1, r2)[2],
                                    from_str(s).val, ospf_area)) @@ links]

(* link as a function of the state: how it ends, and the devices and links    *)
(* it leaves                                                                  *)
link(r1, r2, s, ospf_area) ==
    IF link_panic(r1, r2, s) # ""
    THEN [res |-> "panic", at |-> link_panic(r1, r2, s),
          devices |-> devices, links |-> links]
    ELSE LET ip == from_str(s).val
             k1 == link_order(r1, r2)[1]
             k2 == link_order(r1, r2)[2]
         IN  [res |-> "ok", at |-> "",
              devices |-> link_counters(k1, k2),
              links |-> (<<k1, k2>> :> link_record(k1, k2, ip, ospf_area)) @@ links]

(* link in a build with overflow checks: "next_iface += 1" panics when the     *)
(* counter is at its maximum, after the record is written; the first          *)
(* increment is made when the second one panics                               *)
link_checked(r1, r2, s, ospf_area) ==
    IF link_panic(r1, r2, s) # ""
    THEN link(r1, r2, s, ospf_area)
    ELSE LET ip == from_str(s).val
             k1 == link_order(r1, r2)[1]
             k2 == link_order(r1, r2)[2]
             written == (<<k1, k2>> :> link_record(k1, k2, ip, ospf_area)) @@ links
         IN  IF OverflowsU8(devices[k1].next_iface)
             THEN [res |-> "panic", at |-> "overflow",
                   devices |-> devices, links |-> written]
             ELSE IF OverflowsU8(devices[k2].next_iface)
             THEN [res |-> "panic", at |-> "overflow",
                   devices |-> [devices EXCEPT ![k1].next_iface = IncU8(devices[k1].next_iface)],
                   links |-> written]
             ELSE link(r1, r2, s, ospf_area)

----------------------------------------------------------------------------
(* App::unlink *)

(* Mutant: the key is used as given *)
unlink_key_as_given(r1, r2) == <<r1, r2>>

(* "Order `r1` and `r2`" *)
unlink_key(r1, r2) == IF r1 < r2 THEN <<r1, r2>> ELSE <<r2, r1>>

(* Mutant: every record of the lower device goes *)
remove_of_lower(key) == [k \in { j \in DOMAIN links : j[1] # key[1] } |-> links[k]]

(* HashMap::remove *)
remove(key) == [k \in DOMAIN links \ {key} |-> links[k]]

(* Mutant: the removed record is unwrapped *)
unlink_unwrap(r1, r2) ==
    IF r1 = r2
    THEN [res |-> "panic", at |-> "assert_ne", links |-> links]
    ELSE IF unlink_key(r1, r2) \notin DOMAIN links
    THEN [res |-> "panic", at |-> "unwrap", links |-> links]
    ELSE [res |-> "ok", at |-> "", links |-> remove(unlink_key(r1, r2))]

unlink(r1, r2) ==
    IF r1 = r2
    THEN [res |-> "panic", at |-> "assert_ne", links |-> links]
    ELSE [res |-> "ok", at |-> "", links |-> remove(unlink_key(r1, r2))]

----------------------------------------------------------------------------
(* App::to_commands *)

(* The orders in which HashMap::iter may yield the keys of `links`: the       *)
(* order is unspecified, and one map yields the same order every time it is   *)
(* iterated unchanged.                                                        *)
IterOrders ==
    LET n == Cardinality(DOMAIN links)
    IN  { o \in [1 .. n -> DOMAIN links] :
            \A i, j \in 1 .. n : i # j => o[i] # o[j] }

(* Mutant: only the first component of the key is compared *)
far_of_low_only(key, close_key) ==
    IF key[1] = close_key THEN Some(key[2]) ELSE None

(* The far key of a link key seen from close_key (the filter_map) *)
far_of(key, close_key) ==
    IF key[1] = close_key THEN Some(key[2])
    ELSE IF key[2] = close_key THEN Some(key[1])
    ELSE None

(* directly_connected: the DirectedLinks of close_key, in iteration order *)
directly_connected(close_key, order) ==
    LET mine == SelectSeq(order, LAMBDA key : far_of(key, close_key).some)
    IN  [i \in 1 .. Len(mine) |->
            get_directed_link(close_key, far_of(mine[i], close_key).val).val.val]

(* Mutant: the complement of the mask is written in place of the mask *)
interface_lines_hostmask(l) ==
    << "interface GigabitEthernet " \o ToString(l.close_iface) \o "/0",
       "   ip address " \o to_string(IpAddr(l.close_ip.fam, l.close_ip.addr))
           \o " " \o to_string(hostmask(l.close_ip)),
       "   no shutdown",
       "exit",
       "" >>

(* "Network interfaces": the lines written for one link *)
interface_lines(l) ==
    << "interface GigabitEthernet " \o ToString(l.close_iface) \o "/0",
       "   ip address " \o to_string(IpAddr(l.close_ip.fam, l.close_ip.addr))
           \o " " \o to_string(netmask(l.close_ip)),
       "   no shutdown",
       "exit",
       "" >>

(* Mutant: the membership of the device itself decides *)
rip_lines_close(l) ==
    IF \E i \in 1 .. Len(rip_enabled) : rip_enabled[i] = l.close_key
    THEN << "   network " \o to_string(network(l.far_ip)) >>
    ELSE << >>

(* "RIP v2": the line written for one link, if any *)
rip_lines(l) ==
    IF \E i \in 1 .. Len(rip_enabled) : rip_enabled[i] = l.far_key
    THEN << "   network " \o to_string(network(l.far_ip)) >>
    ELSE << >>

(* Mutant: the mask is written in place of its complement *)
ospf_lines_netmask(l) ==
    IF l.ospf_area.some
    THEN << "   network " \o to_string(network(l.far_ip)) \o " "
               \o to_string(netmask(l.far_ip)) \o " area "
               \o ToString(l.ospf_area.val) >>
    ELSE << >>

(* "OSPF": the line written for one link, if any *)
ospf_lines(l) ==
    IF l.ospf_area.some
    THEN << "   network " \o to_string(network(l.far_ip)) \o " "
               \o to_string(hostmask(l.far_ip)) \o " area "
               \o ToString(l.ospf_area.val) >>
    ELSE << >>

RECURSIVE Concat(_, _)
(* The lines f writes for each element of seq, one after the other *)
Concat(f(_), seq) ==
    IF seq = << >> THEN << >> ELSE f(Head(seq)) \o Concat(f, Tail(seq))

(* The text written for one device, as its lines *)
device_text(close_key, order) ==
    LET dc == directly_connected(close_key, order)
    IN  << "enable", "configure terminal", "" >>
        \o Concat(interface_lines, dc)
        \o << "router rip", "   version 2" >>
        \o Concat(rip_lines, dc)
        \o << "exit", "" >>
        \o << "router ospf 1" >>
        \o (IF devices[close_key].redistributions.ospf_to_rip
            THEN << "   redistribute rip subnets" >> ELSE << >>)
        \o Concat(ospf_lines, dc)
        \o << "exit", "" >>
        \o << "", "exit", "disable" >>

(* The returned map: devices are visited in key order and map.insert        *)
(* overwrites, so a name maps to the text of the last device that has it    *)
to_commands(order) ==
    [name \in { devices[k].name : k \in Keys } |->
        device_text(CHOOSE k \in Keys :
                        /\ devices[k].name = name
                        /\ \A j \in Keys : devices[j].name = name => j <= k,
                    order)]

----------------------------------------------------------------------------
(* Inputs *)

(* The add_device calls the caller makes, in order: the name and the         *)
(* redistribute_ospf_to_rip flag of each                                     *)
DeviceInputs ==
    << { <<"R1", FALSE>> },
       { <<"R2", TRUE>> },
       { <<"R3", FALSE>> } >>

(* The same for the compiler, where names and flags matter: the third device *)
(* takes a new name or repeats the first one                                 *)
CompileDeviceInputs ==
    << { <<"R1", FALSE>> },
       { <<"R2", TRUE>> },
       { <<"R3", FALSE>>, <<"R1", TRUE>> } >>

(* ospf_area: Option<u16> *)
Areas == {None, Some(0)}

(* The texts given to link:                                                   *)
(*   a /30 written with its network address, hosts 1 and 2                    *)
(*   a /30 written with a host address (6), block 4..7, hosts 5 and 6         *)
(*   a /32, one host                                                          *)
(*   a text with a prefix length longer than the address                      *)
IpStrings ==
    { <<"v4", 0, AddrBits - 2>>,
      <<"v4", 6, AddrBits - 2>>,
      <<"v4", 1, AddrBits>>,
      <<"v4", 0, AddrBits + 1>> }

(* The texts among them that link accepts *)
CompileIpStrings == { s \in IpStrings : link_panic(1, 2, s) = "" }

NoCall == [op |-> "none", res |-> "ok", at |-> ""]

(* A panic ends the program: no call follows it *)
Running == last.res = "ok"

----------------------------------------------------------------------------
(* The state after App::new() *)

Init ==
    /\ devices = << >>
    /\ links = << >>
    /\ rip_enabled = << >>
    /\ last = NoCall

(* app.add_device(name).redistribute_ospf_to_rip(b).finish() *)
AddDevice(name, b) ==
    /\ Running
    /\ devices' = Append(devices, Device(name, b))
    /\ last' = [op |-> "add_device", res |-> "ok", at |-> "",
                key |-> Len(devices) + 1]
    /\ UNCHANGED <<links, rip_enabled>>

(* The call reaches "next_iface += 1" with a counter at its maximum *)
AtU8Max(r1, r2, s) ==
    /\ link_panic(r1, r2, s) = ""
    /\ OverflowsU8(devices[r1].next_iface) \/ OverflowsU8(devices[r2].next_iface)

(* app.link(r1, r2, s, ospf_area), in a build with or without overflow       *)
(* checks: the two differ when a counter is at its maximum                    *)
LinkCall(r1, r2, s, ospf_area) ==
    /\ Running
    /\ \E out \in IF AtU8Max(r1, r2, s)
                   THEN {link(r1, r2, s, ospf_area), link_checked(r1, r2, s, ospf_area)}
                   ELSE {link(r1, r2, s, ospf_area)} :
          /\ devices' = out.devices
          /\ links' = out.links
          /\ last' = [op |-> "link", res |-> out.res, at |-> out.at,
                      r1 |-> r1, r2 |-> r2, ip |-> s, ospf_area |-> ospf_area,
                      len_before |-> Cardinality(DOMAIN links),
                      had |-> \E k \in DOMAIN links : k = <<r1, r2>> \/ k = <<r2, r1>>,
                      area_before |-> IF link_order(r1, r2) \in DOMAIN links
                                      THEN links[link_order(r1, r2)].ospf_area
                                      ELSE None]
    /\ UNCHANGED rip_enabled

(* The same, for a caller that gives a device at most MaxIface interfaces: a  *)
(* call that hands out interface numbers is made while both counters are      *)
(* below MaxIface                                                             *)
Link(r1, r2, s, ospf_area) ==
    /\ Running
    /\ link_panic(r1, r2, s) = "" =>
          /\ devices[r1].next_iface < MaxIface
          /\ devices[r2].next_iface < MaxIface
    /\ LinkCall(r1, r2, s, ospf_area)

(* (`had` and `area_before` keep what the call found for the pair)            *)

(* app.unlink(r1, r2).  `after_link` keeps, when the call before was a link   *)
(* of the same two devices that succeeded, what that call found.             *)
Unlink(r1, r2) ==
    /\ Running
    /\ links' = unlink(r1, r2).links
    /\ last' = [op |-> "unlink", res |-> unlink(r1, r2).res,
                at |-> unlink(r1, r2).at, r1 |-> r1, r2 |-> r2,
                had |-> \E k \in DOMAIN links : k = <<r1, r2>> \/ k = <<r2, r1>>,
                after_link |->
                    IF /\ last.op = "link"
                       /\ {last.r1, last.r2} = {r1, r2}
                    THEN Some([len_before |-> last.len_before, had |-> last.had])
                    ELSE None]
    /\ UNCHANGED <<devices, rip_enabled>>

(* app.get_directed_link(close_key, far_key) *)
GetDirectedLink(close_key, far_key) ==
    /\ Running
    /\ last' = [op |-> "get_directed_link",
                res |-> get_directed_link(close_key, far_key).res,
                at |-> get_directed_link(close_key, far_key).at,
                close_key |-> close_key, far_key |-> far_key,
                out |-> get_directed_link(close_key, far_key)]
    /\ UNCHANGED <<devices, links, rip_enabled>>

(* app.rip_enabled.push(key): the caller enables RIP on devices in key order, *)
(* each at most once                                                         *)
PushRip(key) ==
    /\ Running
    /\ \A i \in 1 .. Len(rip_enabled) : rip_enabled[i] < key
    /\ rip_enabled' = Append(rip_enabled, key)
    /\ last' = [op |-> "rip_enabled.push", res |-> "ok", at |-> "", key |-> key]
    /\ UNCHANGED <<devices, links>>

(* app.to_commands(), the HashMap yielding its keys in `order` *)
ToCommands(order) ==
    /\ Running
    /\ last' = [op |-> "to_commands", res |-> "ok", at |-> "",
                order |-> order, out |-> to_commands(order)]
    /\ UNCHANGED <<devices, links, rip_enabled>>

----------------------------------------------------------------------------
(* The link table: devices and the links made and removed between them, with *)
(* every way a call can end                                                  *)

Next ==
    \/ \E d \in UNION { DeviceInputs[i] : i \in {Len(devices) + 1} \cap DOMAIN DeviceInputs } :
          AddDevice(d[1], d[2])
    \/ \E r1 \in Keys, r2 \in Keys, s \in IpStrings, a \in Areas : Link(r1, r2, s, a)
    \/ \E r1 \in Keys, r2 \in Keys : Unlink(r1, r2)

Spec == Init /\ [][Next]_vars

----------------------------------------------------------------------------
(* The oriented view: links of blocks that have two hosts, removed and       *)
(* looked up, each call also with one device given twice                     *)

NextView ==
    \/ \E d \in UNION { DeviceInputs[i] : i \in {Len(devices) + 1} \cap DOMAIN DeviceInputs } :
          AddDevice(d[1], d[2])
    \/ \E r1 \in Keys, r2 \in Keys, s \in CompileIpStrings, a \in Areas : Link(r1, r2, s, a)
    \/ \E r1 \in Keys, r2 \in Keys : Unlink(r1, r2)
    \/ \E c \in Keys, f \in Keys : GetDirectedLink(c, f)

SpecView == Init /\ [][NextView]_vars

----------------------------------------------------------------------------
(* The address allocation of link: two devices, every text of a block *)

AllIpStrings ==
    { <<fam, addr, len>> : fam \in {"v4", "v6"},
                           addr \in 0 .. (Pow2(AddrBits) - 1),
                           len \in 0 .. (AddrBits + 1) }

NextAlloc ==
    \/ \E d \in UNION { DeviceInputs[i] : i \in {Len(devices) + 1} \cap {1, 2} } :
          AddDevice(d[1], d[2])
    \/ \E r1 \in Keys, r2 \in Keys, s \in AllIpStrings, a \in Areas : Link(r1, r2, s, a)

SpecAlloc == Init /\ [][NextAlloc]_vars

----------------------------------------------------------------------------
(* The compiler: devices, links that succeed (given with the lower key       *)
(* first), RIP membership, to_commands.  The caller builds, then compiles    *)
(* once.                                                                     *)

Building == last.op # "to_commands"


NextCompile ==
    \/ /\ Building
       /\ \E d \in UNION { CompileDeviceInputs[i] :
                              i \in {Len(devices) + 1} \cap DOMAIN CompileDeviceInputs } :
             AddDevice(d[1], d[2])
    \/ /\ Building
       /\ \E r1 \in Keys : \E r2 \in {k \in Keys : k > r1}, s \in CompileIpStrings, a \in Areas :
             Link(r1, r2, s, a)
    \/ /\ Building
       /\ \E r1 \in Keys : \E r2 \in {k \in Keys : k > r1} : Unlink(r1, r2)
    \/ /\ Building
       /\ \E key \in Keys : PushRip(key)
    \/ /\ Building
       /\ \E order \in IterOrders : ToCommands(order)

SpecCompile == Init /\ [][NextCompile]_vars

----------------------------------------------------------------------------
(* The interface counters at their limit: the first device is linked to the  *)
(* newest one, again and again, with no cap on the interfaces of a device    *)

WrapIpString == <<"v4", 0, AddrBits - 2>>

NextWrap ==
    \/ \E d \in UNION { DeviceInputs[i] : i \in {Len(devices) + 1} \cap DOMAIN DeviceInputs } :
          AddDevice(d[1], d[2])
    \/ /\ Len(devices) >= 2
       /\ LinkCall(1, Len(devices), WrapIpString, None)

SpecWrap == Init /\ [][NextWrap]_vars

----------------------------------------------------------------------------
(* Notions the properties are stated with *)

(* The addresses of the block of `net`: those that agree with its address on  *)
(* the first `len` bits                                                       *)
BlockOf(net) ==
    LET base == (net.addr \div BlockSize(net)) * BlockSize(net)
    IN  base .. (base + BlockSize(net) - 1)

(* The usable host addresses of the block: IPv4 reserves the lowest (network) *)
(* and the highest (broadcast) address of a block, unless the block has only  *)
(* one or two addresses; IPv6 reserves none.                                  *)
UsableHosts(net) ==
    LET base == (net.addr \div BlockSize(net)) * BlockSize(net)
    IN  IF net.fam = "v4" /\ BlockSize(net) > 2
        THEN (base + 1) .. (base + BlockSize(net) - 2)
        ELSE BlockOf(net)

Least(S) == CHOOSE a \in S : \A b \in S : a <= b

(* The first and the second usable host address of the block, with its prefix *)
(* length                                                                     *)
FirstHost(net) == [fam |-> net.fam, addr |-> Least(UsableHosts(net)), len |-> net.len]
SecondHost(net) ==
    [fam |-> net.fam, addr |-> Least(UsableHosts(net) \ {Least(UsableHosts(net))}),
     len |-> net.len]

(* A text that parses to a block with at least two usable host addresses *)
GoodBlock(s) == from_str(s).some /\ Cardinality(UsableHosts(from_str(s).val)) >= 2

(* A text that parses to a block with fewer than two usable host addresses *)
SmallBlock(s) == from_str(s).some /\ Cardinality(UsableHosts(from_str(s).val)) < 2

Lower(a, b) == IF a < b THEN a ELSE b
Higher(a, b) == IF a < b THEN b ELSE a

(* The last call was a link that succeeded *)
LinkDone == last.op = "link" /\ last.res = "ok"

(* The block of the last link call *)
LastBlock == from_str(last.ip).val

----------------------------------------------------------------------------
(* C1: link is symmetric in its two devices.  From every reachable state, for *)
(* distinct devices a and b, a valid block and an area, link(a, b, X, area)   *)
(* and link(b, a, X, area) end the same way and leave the same link table and *)
(* the same interface counters; and after a link the lower device holds the   *)
(* first host address of the block and the higher device the second, in the   *)
(* stored record and in the oriented view, whatever the argument order.       *)
(* (A panic ends the program: the calls are those made while it runs.)        *)
C1_LinkSymmetric ==
    /\ \A a \in Keys, b \in Keys, s \in IpStrings, area \in Areas :
          (Running /\ a < b /\ GoodBlock(s)) =>
              LET ab == link(a, b, s, area)
                  ba == link(b, a, s, area)
              IN  /\ ab = ba
                  /\ ab.res = "ok"
                  /\ ab.links[<<a, b>>].r1 = FirstHost(from_str(s).val)
                  /\ ab.links[<<a, b>>].r2 = SecondHost(from_str(s).val)
    /\ LinkDone =>
          LET lo == Lower(last.r1, last.r2)
              hi == Higher(last.r1, last.r2)
          IN  /\ <<lo, hi>> \in DOMAIN links
              /\ get_directed_link(lo, hi).val.val.close_ip = FirstHost(LastBlock)
              /\ get_directed_link(lo, hi).val.val.far_ip = SecondHost(LastBlock)
              /\ get_directed_link(hi, lo).val.val.far_ip = FirstHost(LastBlock)
              /\ get_directed_link(hi, lo).val.val.close_ip = SecondHost(LastBlock)

(* C1 witness: a link given with the higher device first, on a pair that was  *)
(* already linked, has stored the first host address on the lower device      *)
C1_Witness ==
    /\ LinkDone
    /\ last.r1 > last.r2
    /\ last.had
    /\ links[<<last.r2, last.r1>>].r1 = FirstHost(LastBlock)
    /\ FirstHost(LastBlock).addr = 5

(* C2 as stated: after link(a, b, X) followed by unlink(a, b),                *)
(* get_directed_link(a, b) is None and the table has as many links as before  *)
(* the link call.                                                             *)
C2_Original ==
    (last.op = "unlink" /\ last.res = "ok" /\ last.after_link.some) =>
        /\ get_directed_link(last.r1, last.r2).val = None
        /\ Cardinality(DOMAIN links) = last.after_link.val.len_before

(* C2 amended: after link(a, b, X) followed by unlink(a, b),                  *)
(* get_directed_link(a, b) is None (in both orientations) and the table has   *)
(* as many links as before the link call if the pair had no link then, and    *)
(* one less if it had.                                                        *)
C2_LinkUnlink ==
    (last.op = "unlink" /\ last.res = "ok" /\ last.after_link.some) =>
        /\ get_directed_link(last.r1, last.r2).val = None
        /\ get_directed_link(last.r2, last.r1).val = None
        /\ Cardinality(DOMAIN links) =
               last.after_link.val.len_before
                   - (IF last.after_link.val.had THEN 1 ELSE 0)

(* C2 witness: an unlink right after a link of a pair that was not linked     *)
(* before, given in the other argument order, other links being stored        *)
C2_Witness ==
    /\ last.op = "unlink" /\ last.res = "ok"
    /\ last.after_link.some
    /\ ~last.after_link.val.had
    /\ last.had
    /\ last.r1 > last.r2
    /\ last.after_link.val.len_before = 1
    /\ Cardinality(DOMAIN links) = 1

(* C3: re-linking overwrites.  After a link of a pair that was already        *)
(* linked, in either argument order, the table holds exactly one record for   *)
(* the pair, as many links as before the call, and the record is the one      *)
(* derived from the new block and the new area alone: its addresses are the   *)
(* first two hosts of the new block, its area the new area, its interfaces    *)
(* the ones this call handed out.                                             *)
C3_RelinkOverwrites ==
    (LinkDone /\ last.had) =>
        /\ Cardinality({ k \in DOMAIN links : {k[1], k[2]} = {last.r1, last.r2} }) = 1
        /\ Cardinality(DOMAIN links) = last.len_before
        /\ links[<<Lower(last.r1, last.r2), Higher(last.r1, last.r2)>>] =
               [r1 |-> FirstHost(LastBlock),
                r2 |-> SecondHost(LastBlock),
                r1_iface |-> devices[Lower(last.r1, last.r2)].next_iface - 1,
                r2_iface |-> devices[Higher(last.r1, last.r2)].next_iface - 1,
                ospf_area |-> last.ospf_area]

(* C3 witness: a linked pair has been linked again, higher device first, with *)
(* no area and the block whose first host is 1, and holds the second          *)
(* interface of its lower device                                              *)
C3_Witness ==
    /\ LinkDone /\ last.had
    /\ last.r1 > last.r2
    /\ last.ospf_area = None
    /\ links[<<last.r2, last.r1>>].r1.addr = 1
    /\ links[<<last.r2, last.r1>>].r1_iface = 1

(* C4: every key of the link table is ordered, lower device first: the table  *)
(* holds no pair in both orders and no pair of a device with itself.          *)
C4_KeysOrdered ==
    /\ \A k \in DOMAIN links : k[1] \in Keys /\ k[2] \in Keys /\ k[1] < k[2]
    /\ \A k \in DOMAIN links : <<k[2], k[1]>> \notin DOMAIN links

(* C4 witness: links given with the higher device first are stored, two of    *)
(* them                                                                       *)
C4_Witness ==
    /\ LinkDone
    /\ last.r1 > last.r2
    /\ ~last.had
    /\ Cardinality(DOMAIN links) = 2

(* C5: every stored link has two distinct host addresses of one block, with   *)
(* the same prefix length; the block is the one given to the last link call   *)
(* of the pair: a link call leaves its pair's record in the block it was      *)
(* given, and a record is written by a link call of its pair only.            *)
C5_LinkAddresses ==
    /\ [](\A k \in DOMAIN links :
            /\ links[k].r1 # links[k].r2
            /\ links[k].r1.addr # links[k].r2.addr
            /\ links[k].r1.len = links[k].r2.len
            /\ links[k].r1.fam = links[k].r2.fam
            /\ BlockOf(links[k].r1) = BlockOf(links[k].r2)
            /\ links[k].r1.addr \in UsableHosts(links[k].r1)
            /\ links[k].r2.addr \in UsableHosts(links[k].r1))
    /\ [](LinkDone =>
            LET l == links[<<Lower(last.r1, last.r2), Higher(last.r1, last.r2)>>]
            IN  /\ l.r1.len = LastBlock.len /\ l.r2.len = LastBlock.len
                /\ l.r1.fam = LastBlock.fam /\ l.r2.fam = LastBlock.fam
                /\ l.r1.addr \in UsableHosts(LastBlock)
                /\ l.r2.addr \in UsableHosts(LastBlock))
    /\ [][ \A k \in DOMAIN links' :
              (k \notin DOMAIN links \/ links'[k] # links[k]) =>
                  /\ last'.op = "link" /\ last'.res = "ok"
                  /\ k = <<Lower(last'.r1, last'.r2), Higher(last'.r1, last'.r2)>> ]_vars

(* C5 witness: two links are stored, on different blocks, the last one given  *)
(* as a host address of its block                                             *)
C5_Witness ==
    /\ LinkDone
    /\ last.ip[2] = 6
    /\ \E k1, k2 \in DOMAIN links :
          /\ k1 # k2
          /\ BlockOf(links[k1].r1) # BlockOf(links[k2].r1)

(* C6: address allocation.  For every text of a block with at least two       *)
(* usable host addresses, from every reachable state, link succeeds and       *)
(* assigns the first two usable host addresses of the block in ascending      *)
(* order: both members of the block, both with its prefix length, distinct;   *)
(* the pair is a function of the block alone.                                 *)
C6_Allocation ==
    /\ \A s \in AllIpStrings, area \in Areas :
          (Running /\ Len(devices) >= 2 /\ GoodBlock(s)) =>
              LET out == link(1, 2, s, area)
              IN  /\ out.res = "ok"
                  /\ out.links[<<1, 2>>].r1 = FirstHost(from_str(s).val)
                  /\ out.links[<<1, 2>>].r2 = SecondHost(from_str(s).val)
    /\ LinkDone =>
          LET l == links[<<Lower(last.r1, last.r2), Higher(last.r1, last.r2)>>]
          IN  /\ GoodBlock(last.ip)
              /\ l.r1 = FirstHost(LastBlock)
              /\ l.r2 = SecondHost(LastBlock)
              /\ l.r1.addr \in BlockOf(LastBlock) /\ l.r2.addr \in BlockOf(LastBlock)
              /\ l.r1.addr \in UsableHosts(LastBlock)
              /\ l.r2.addr \in UsableHosts(LastBlock)
              /\ l.r1.addr < l.r2.addr
              /\ \A a \in UsableHosts(LastBlock) \ {l.r1.addr} : l.r2.addr <= a
              /\ l.r1.len = LastBlock.len /\ l.r2.len = LastBlock.len

(* C6 witness: a pair linked before is linked with a block of two addresses   *)
(* (2 and 3, written with the address 3) and holds its two addresses          *)
C6_Witness ==
    /\ LinkDone
    /\ last.had
    /\ last.ip = <<"v4", 3, AddrBits - 1>>
    /\ links[<<1, 2>>].r1.addr = 2
    /\ links[<<1, 2>>].r2.addr = 3

(* C7: link with a block of fewer than two usable host addresses fails and    *)
(* changes nothing: the link table, with the record the pair may have, and    *)
(* every device are as before the call.  For two distinct devices the failure *)
(* is the one of the assertion about the hosts of the block.                  *)
C7_InvalidBlockNoMutation ==
    [][ (last'.op = "link" /\ SmallBlock(last'.ip)) =>
            /\ last'.res = "panic"
            /\ (last'.r1 # last'.r2 => last'.at = "assert_hosts")
            /\ links' = links
            /\ devices' = devices
            /\ rip_enabled' = rip_enabled ]_vars

(* C7 witness: a link with a block of one address has failed on a pair that   *)
(* holds a record, two links being stored                                     *)
C7_Witness ==
    /\ last.op = "link"
    /\ last.at = "assert_hosts"
    /\ last.had
    /\ last.r1 > last.r2
    /\ <<last.r2, last.r1>> \in DOMAIN links
    /\ Cardinality(DOMAIN links) = 2

(* C8 as stated: link, unlink and get_directed_link given one device twice    *)
(* each fail with the duplicate-endpoint error, returned to the caller as an  *)
(* error value, with the table and the counters unchanged.                    *)
C8_Original ==
    [][ (/\ last'.op \in {"link", "unlink"}
         /\ last'.r1 = last'.r2) \/
        (/\ last'.op = "get_directed_link"
         /\ last'.close_key = last'.far_key) =>
            /\ last'.res = "error"
            /\ last'.at = "assert_ne"
            /\ links' = links
            /\ devices' = devices ]_vars

(* C9: unlink of two distinct devices that have no stored link reports no     *)
(* error and changes nothing: not the link table, not a device.               *)
C9_UnlinkAbsentNoOp ==
    [][ (/\ last'.op = "unlink"
         /\ last'.r1 # last'.r2
         /\ <<last'.r1, last'.r2>> \notin DOMAIN links
         /\ <<last'.r2, last'.r1>> \notin DOMAIN links) =>
            /\ last'.res = "ok"
            /\ links' = links
            /\ devices' = devices
            /\ rip_enabled' = rip_enabled ]_vars

(* C9 witness: an unlink of a pair without a link has ended well while        *)
(* another pair is linked                                                     *)
C9_Witness ==
    /\ last.op = "unlink"
    /\ last.res = "ok"
    /\ ~last.had
    /\ Cardinality(DOMAIN links) = 1
    /\ \E k \in Keys : devices[k].next_iface = 2

(* The interface numbers of a sequence of DirectedLinks ascend *)
AscendingIfaces(dc) ==
    \A i, j \in 1 .. Len(dc) : i < j => dc[i].close_iface < dc[j].close_iface

(* C10 as stated: to_commands emits the links of every device in ascending    *)
(* order of close_iface, so that the returned texts are the same whatever     *)
(* order the HashMap yields its keys in.                                      *)
C10_Original ==
    last.op = "to_commands" =>
        /\ \A k \in Keys : AscendingIfaces(directly_connected(k, last.order))
        /\ \A order \in IterOrders : to_commands(order) = last.out

----------------------------------------------------------------------------
(* Notions the properties about the compiled text are stated with *)

(* The position of the first line of `text` that is `line` *)
IndexOf(text, line) ==
    CHOOSE i \in 1 .. Len(text) :
        text[i] = line /\ \A j \in 1 .. (i - 1) : text[j] # line

(* The lines between the three lines of the head and "router rip" *)
InterfaceSection(text) == SubSeq(text, 4, IndexOf(text, "router rip") - 1)

(* The lines between "   version 2" and the "exit" that closes the section *)
RipSection(text) ==
    SubSeq(text, IndexOf(text, "router rip") + 2, IndexOf(text, "router ospf 1") - 3)

(* The lines between "router ospf 1" and the "exit" that closes the section,  *)
(* the redistribution line left out                                           *)
OspfSection(text) ==
    SelectSeq(SubSeq(text, IndexOf(text, "router ospf 1") + 1, Len(text) - 5),
              LAMBDA line : line # "   redistribute rip subnets")

(* The stored links that have device k on one side, in the order of `order` *)
IncidentKeys(k, order) == SelectSeq(order, LAMBDA key : key[1] = k \/ key[2] = k)

(* What a stored link holds for device k and for the device on the other side *)
FarKey(key, k) == IF key[1] = k THEN key[2] ELSE key[1]
OwnAddr(key, k) == IF key[1] = k THEN links[key].r1 ELSE links[key].r2
FarAddr(key, k) == IF key[1] = k THEN links[key].r2 ELSE links[key].r1
OwnIface(key, k) == IF key[1] = k THEN links[key].r1_iface ELSE links[key].r2_iface

(* The network address (address AND mask), the mask and its complement, as    *)
(* they are displayed                                                         *)
MaskOf(net) == Pow2(AddrBits) - Pow2(AddrBits - net.len)
NetworkText(net) == to_string(IpAddr(net.fam, Least(BlockOf(net))))
MaskText(net) == to_string(IpAddr(net.fam, MaskOf(net)))
WildcardText(net) == to_string(IpAddr(net.fam, (Pow2(AddrBits) - 1) - MaskOf(net)))

InRipSet(k) == \E i \in 1 .. Len(rip_enabled) : rip_enabled[i] = k

(* The last device that has the name: the one whose text the map holds *)
Named(name) ==
    CHOOSE k \in Keys : devices[k].name = name /\ \A j \in Keys : devices[j].name = name => j <= k

CompileDone == last.op = "to_commands"

----------------------------------------------------------------------------
(* C11 as stated: to_commands returns one text for every registered device,   *)
(* under its name: the map has as many entries as there are devices, and the  *)
(* entry under the name of a device is the text built for that device.        *)
C11_Original ==
    CompileDone =>
        /\ Cardinality(DOMAIN last.out) = Len(devices)
        /\ \A k \in Keys :
              /\ devices[k].name \in DOMAIN last.out
              /\ last.out[devices[k].name] = device_text(k, last.order)

(* The RIP lines expected for device k: one for each stored link of k whose   *)
(* far device is in rip_enabled, showing the network address of the far       *)
(* device's address                                                           *)
ExpectedRip(k, order) ==
    LET ks == SelectSeq(IncidentKeys(k, order), LAMBDA key : InRipSet(FarKey(key, k)))
    IN  [i \in 1 .. Len(ks) |-> "   network " \o NetworkText(FarAddr(ks[i], k))]

(* C12: the RIP section of the text built for a device holds a network line   *)
(* for a stored link of the device exactly when the far device of the link is *)
(* in rip_enabled, and the line shows the network address of the far device's *)
(* address; the membership of the device itself plays no part.                *)
C12_RipSection ==
    CompileDone =>
        /\ \A k \in Keys :
              RipSection(device_text(k, last.order)) = ExpectedRip(k, last.order)
        /\ \A name \in DOMAIN last.out :
              RipSection(last.out[name]) = ExpectedRip(Named(name), last.order)

(* C12 witness: of two linked devices only the first is in rip_enabled; its   *)
(* text has no network line, the text of the second has the line of the       *)
(* block 4..7, and the first has a second link that gives no line             *)
C12_Witness ==
    /\ CompileDone
    /\ rip_enabled = <<1>>
    /\ DOMAIN links = {<<1, 2>>, <<1, 3>>}
    /\ links[<<1, 2>>].r1.addr = 5
    /\ devices[3].name = "R3"
    /\ RipSection(last.out["R1"]) = << >>
    /\ RipSection(last.out["R2"]) = << "   network v4.4" >>

(* The OSPF lines expected for device k: one for each stored link of k that   *)
(* has an area, showing the network address of the far device's address, the  *)
(* complement of the mask and the area                                        *)
ExpectedOspf(k, order) ==
    LET ks == SelectSeq(IncidentKeys(k, order), LAMBDA key : links[key].ospf_area.some)
    IN  [i \in 1 .. Len(ks) |->
            "   network " \o NetworkText(FarAddr(ks[i], k)) \o " "
                \o WildcardText(FarAddr(ks[i], k)) \o " area "
                \o ToString(links[ks[i]].ospf_area.val)]

(* C13: the OSPF section of the text built for a device holds a network line  *)
(* for a stored link of the device exactly when the link has an area, with    *)
(* the far device's network address, the complement of the mask and the area. *)
(* The area of a link is the one its last link call gave: a link call leaves  *)
(* the area it was given, none if it gave none, whatever the record held, and *)
(* the texts built in that state say so; the area of a record is written by a *)
(* link call of its pair only.                                                *)
C13_OspfSection ==
    /\ [](CompileDone =>
            /\ \A k \in Keys :
                  OspfSection(device_text(k, last.order)) = ExpectedOspf(k, last.order)
            /\ \A name \in DOMAIN last.out :
                  OspfSection(last.out[name]) = ExpectedOspf(Named(name), last.order))
    /\ [](LinkDone =>
            LET key == <<Lower(last.r1, last.r2), Higher(last.r1, last.r2)>>
            IN  /\ links[key].ospf_area = last.ospf_area
                /\ \A order \in IterOrders : \A k \in {key[1], key[2]} :
                      OspfSection(device_text(k, order)) = ExpectedOspf(k, order))
    /\ [][ \A k \in DOMAIN links' :
              (k \notin DOMAIN links \/ links'[k].ospf_area # links[k].ospf_area) =>
                  /\ last'.op = "link" /\ last'.res = "ok"
                  /\ k = <<Lower(last'.r1, last'.r2), Higher(last'.r1, last'.r2)>> ]_vars

(* C13 witness: a pair whose record had an area has been linked again without *)
(* one, on the block 4..7, and the OSPF sections built for its two devices    *)
(* have no line                                                               *)
C13_Witness ==
    /\ LinkDone
    /\ last.had
    /\ last.area_before = Some(0)
    /\ last.ospf_area = None
    /\ <<last.r1, last.r2>> = <<1, 2>>
    /\ links[<<1, 2>>].r1.addr = 5
    /\ \A order \in IterOrders :
          /\ OspfSection(device_text(1, order)) = << >>
          /\ OspfSection(device_text(2, order)) = << >>

(* The i-th interface block of a text: four lines, and the empty line that    *)
(* follows them                                                               *)
Block(text, i) == SubSeq(InterfaceSection(text), 5 * (i - 1) + 1, 5 * (i - 1) + 4)

(* The lines of the block of device k for a stored link, after the first *)
BlockBody(key, k) ==
    << "   ip address " \o to_string(IpAddr(OwnAddr(key, k).fam, OwnAddr(key, k).addr))
           \o " " \o MaskText(OwnAddr(key, k)),
       "   no shutdown",
       "exit" >>

(* C14 as stated: every interface block of a compiled text starts with the    *)
(* line "interface GigabitEthernet<N>/0", N the decimal interface number and  *)
(* nothing else in the line, and goes on with the ip address line,            *)
(* "   no shutdown" and "exit".                                               *)
C14_Original ==
    CompileDone =>
        \A k \in Keys :
            LET ks == IncidentKeys(k, last.order)
            IN  \A i \in 1 .. Len(ks) :
                    Block(device_text(k, last.order), i) =
                        << "interface GigabitEthernet" \o ToString(OwnIface(ks[i], k)) \o "/0" >>
                            \o BlockBody(ks[i], k)

(* C14, amended: every interface block of a compiled text starts with the     *)
(* line "interface GigabitEthernet <N>/0", one space before the decimal       *)
(* interface number, and goes on with the ip address line, "   no shutdown"   *)
(* and "exit"; the interface section consists of such blocks, each followed   *)
(* by an empty line.                                                          *)
C14_InterfaceGrammar ==
    CompileDone =>
        \A k \in Keys :
            LET ks == IncidentKeys(k, last.order)
                text == device_text(k, last.order)
            IN  /\ Len(InterfaceSection(text)) = 5 * Len(ks)
                /\ \A i \in 1 .. Len(ks) :
                      /\ Block(text, i) =
                            << "interface GigabitEthernet " \o ToString(OwnIface(ks[i], k)) \o "/0" >>
                                \o BlockBody(ks[i], k)
                      /\ InterfaceSection(text)[5 * i] = ""

(* C14 witness: a text with two interface blocks has been compiled, the       *)
(* second of them for interface 1 on the block 4..7                           *)
C14_Witness ==
    /\ CompileDone
    /\ DOMAIN links = {<<1, 2>>, <<1, 3>>}
    /\ Len(InterfaceSection(device_text(1, last.order))) = 10
    /\ Block(device_text(1, last.order), 2) =
          << "interface GigabitEthernet 1/0", "   ip address v4.5 v4.4",
             "   no shutdown", "exit" >>

(* C15 as stated: next_iface never decreases; a link that succeeds raises the *)
(* counters of its two devices by exactly one, also when the pair was linked  *)
(* before; and the number a device hands out is greater than every number it  *)
(* holds in a stored link.                                                    *)
C15_Original ==
    [][ /\ \A k \in Keys : devices'[k].next_iface >= devices[k].next_iface
        /\ (last'.op = "link" /\ last'.res = "ok") =>
              \A k \in {last'.r1, last'.r2} :
                  /\ devices'[k].next_iface = devices[k].next_iface + 1
                  /\ \A key \in DOMAIN links :
                        (key[1] = k \/ key[2] = k) =>
                            LET pair == <<Lower(last'.r1, last'.r2),
                                          Higher(last'.r1, last'.r2)>>
                            IN  OwnIface(key, k) <
                                    (IF pair[1] = k THEN links'[pair].r1_iface
                                     ELSE links'[pair].r2_iface) ]_vars

(* C16: a link that succeeds stores, as the interface of the lower device,    *)
(* the next_iface that device had before the call, and as the interface of    *)
(* the higher device the next_iface of that one.  A device is added with      *)
(* next_iface 0 and only a link call on the device changes its counter, so    *)
(* the first link of a device gives it interface 0.                           *)
C16_IfaceAssigned ==
    /\ [][ (last'.op = "link" /\ last'.res = "ok") =>
              LET lo == Lower(last'.r1, last'.r2)
                  hi == Higher(last'.r1, last'.r2)
              IN  /\ links'[<<lo, hi>>].r1_iface = devices[lo].next_iface
                  /\ links'[<<lo, hi>>].r2_iface = devices[hi].next_iface ]_vars
    /\ [][ last'.op = "add_device" =>
              /\ Len(devices') = Len(devices) + 1
              /\ devices'[Len(devices')].next_iface = 0 ]_vars
    /\ [][ \A k \in Keys :
              devices'[k].next_iface # devices[k].next_iface =>
                  /\ last'.op = "link"
                  /\ k \in {last'.r1, last'.r2} ]_vars

(* C16 witness: the first device, linked once before, is linked to the third, *)
(* which was never linked; the call names the higher device first, and the    *)
(* record holds interface 1 for the lower device and 0 for the higher         *)
C16_Witness ==
    /\ LinkDone
    /\ <<last.r1, last.r2>> = <<3, 1>>
    /\ links[<<1, 3>>].r1_iface = 1
    /\ links[<<1, 3>>].r2_iface = 0
    /\ devices[3].next_iface = 1

C18_MirrorView ==
    /\ [](\A a \in Keys, b \in Keys :
            (/\ last.op = "get_directed_link"
             /\ last.close_key = a /\ last.far_key = b /\ a # b) =>
                LET ab == last.out
                    ba == get_directed_link(b, a)
                    key == <<Lower(a, b), Higher(a, b)>>
                IN  /\ ab.res = "ok" /\ ba.res = "ok"
                    /\ ab.val = None <=> key \notin DOMAIN links
                    /\ ab.val = None <=> ba.val = None
                    /\ ab.val # None =>
                          /\ ab.val.val.close_ip = ba.val.val.far_ip
                          /\ ab.val.val.far_ip = ba.val.val.close_ip
                          /\ ab.val.val.close_key = a /\ ab.val.val.far_key = b
                          /\ ba.val.val.close_key = b /\ ba.val.val.far_key = a
                          /\ ab.val.val.close_iface = OwnIface(key, a)
                          /\ ba.val.val.close_iface = OwnIface(key, b)
                          /\ ab.val.val.close_ip = OwnAddr(key, a)
                          /\ ba.val.val.close_ip = OwnAddr(key, b)
                          /\ ab.val.val.ospf_area = links[key].ospf_area
                          /\ ba.val.val.ospf_area = links[key].ospf_area)
    /\ [][ last'.op = "get_directed_link" =>
              /\ devices' = devices
              /\ links' = links
              /\ rip_enabled' = rip_enabled ]_vars

(* C18 witness: the view of a link from its higher device has been returned,  *)
(* the two devices holding different interface numbers on it                  *)
C18_Witness ==
    /\ last.op = "get_directed_link"
    /\ last.res = "ok"
    /\ last.close_key > last.far_key
    /\ last.out.val # None
    /\ last.out.val.val.close_iface = 0
    /\ links[<<last.far_key, last.close_key>>].r1_iface = 1
    /\ last.out.val.val.ospf_area = Some(0)

(* C20 as stated: in every state, the stored links of a device give it        *)
(* pairwise distinct interface numbers.                                       *)
C20_Original ==
    \A k \in Keys : \A key1 \in DOMAIN links, key2 \in DOMAIN links :
        (/\ key1 # key2
         /\ key1[1] = k \/ key1[2] = k
         /\ key2[1] = k \/ key2[2] = k) =>
            OwnIface(key1, k) # OwnIface(key2, k)

(* The stored links that have device k on one side *)
LinksOf(k) == { key \in DOMAIN links : key[1] = k \/ key[2] = k }

(* The interface blocks of `text` are those of device k: one for each stored  *)
(* link of k, on whichever side k is, in the order of `order`, each with the  *)
(* interface number and the address the record holds for k                    *)
BlocksAreOf(text, k, order) ==
    LET ks == IncidentKeys(k, order)
    IN  /\ Len(ks) = Cardinality(LinksOf(k))
        /\ Len(InterfaceSection(text)) = 5 * Cardinality(LinksOf(k))
        /\ \A i \in 1 .. Len(ks) :
              /\ Block(text, i)[1] \in
                    { "interface GigabitEthernet " \o ToString(OwnIface(ks[i], k)) \o "/0",
                      "interface GigabitEthernet" \o ToString(OwnIface(ks[i], k)) \o "/0" }
              /\ Block(text, i)[2] =
                    "   ip address "
                        \o to_string(IpAddr(OwnAddr(ks[i], k).fam, OwnAddr(ks[i], k).addr))
                        \o " " \o MaskText(OwnAddr(ks[i], k))
              /\ OwnAddr(ks[i], k) # FarAddr(ks[i], k)
        /\ LinksOf(k) = {} => InterfaceSection(text) = << >>

(* C19: the text built for a device has one interface block for each stored   *)
(* link that has the device on its lower or its higher side, and none for a   *)
(* link the device is not part of; a block shows the interface number and the *)
(* address the record holds for the device itself, which is not the address   *)
(* of the far side; a device without links gets a text without a block.       *)
C19_InterfaceBlocks ==
    CompileDone =>
        /\ \A k \in Keys : BlocksAreOf(device_text(k, last.order), k, last.order)
        /\ \A name \in DOMAIN last.out :
              BlocksAreOf(last.out[name], Named(name), last.order)

(* C19 witness: the second device is the higher side of one link and the      *)
(* lower side of another, the third link is not its own; its text has two     *)
(* blocks, the one of the link to the first device with the second host       *)
(* address of the block 0..3                                                  *)
C19_Witness ==
    /\ CompileDone
    /\ DOMAIN links = {<<1, 2>>, <<2, 3>>, <<1, 3>>}
    /\ devices[3].name = "R3"
    /\ links[<<1, 2>>].r2.addr = 2
    /\ Len(InterfaceSection(last.out["R2"])) = 10
    /\ \E i \in 1 .. 2 :
          Block(last.out["R2"], i)[2] = "   ip address v4.2 v4.4"

====
